---- MODULE Spec2Model ----
(***************************************************************************)
(* Model of uhttp_request (src/src/lib.rs): the slice-based parsers        *)
(* RequestLine::new and Headers (an Iterator) with their helpers           *)
(* skip_empty_lines, next_line and check_crlf.                             *)
(*                                                                         *)
(* A byte is a number in 0..255 and a slice is a sequence of bytes.  A     *)
(* &str is the sequence of its UTF-8 bytes (std::str::from_utf8 only       *)
(* validates, it does not copy or change the bytes).                       *)
(***************************************************************************)
EXTENDS Integers, Sequences, FiniteSets, TLC

\* ------------------------------------------------------------------ bounds
MaxReqLen == 7
MaxHdrLen == 6
MaxAdv == 2

\* ------------------------------------------------------- delimiter bytes
CR == 13
LF == 10
SP == 32
COLON == 58

\* Bytes the input buffers are drawn from.  97 is 'a'; 160 (0xA0) alone is
\* invalid UTF-8; 194,160 (0xC2 0xA0) is U+00A0 NO-BREAK SPACE.
ReqBytes == {13, 10, 32, 97, 160}
HdrBytes == {13, 10, 58, 97, 194, 160}

\* The sequences over S of length at most n.
SeqsUpTo(S, n) == UNION {[1..k -> S] : k \in 0..n}

ReqInputs == SeqsUpTo(ReqBytes, MaxReqLen)
HdrInputs == SeqsUpTo(HdrBytes, MaxHdrLen)

\* ------------------------------------------------------- slices, memchr
\* &bytes[i..] with a 0-based index i.
SliceFrom(bytes, i) == SubSeq(bytes, i + 1, Len(bytes))
\* &bytes[..i] with a 0-based index i.
SliceTo(bytes, i) == SubSeq(bytes, 1, i)

\* memchr(needle, haystack): 0-based index of the first occurrence, -1 for None.
memchr(needle, haystack) ==
    IF \E i \in 1..Len(haystack) : haystack[i] = needle
    THEN (CHOOSE i \in 1..Len(haystack) :
              /\ haystack[i] = needle
              /\ \A j \in 1..(i - 1) : haystack[j] # needle) - 1
    ELSE -1

\* ---------------------------------------------------- std::str::from_utf8
IsCont(b) == b \in 128..191

\* Number of bytes of the well-formed UTF-8 character starting at s[i],
\* 0 if the bytes there are not a well-formed character.
Utf8CharLen(s, i) ==
    LET n  == Len(s)
        b0 == s[i]
        b1 == IF i + 1 <= n THEN s[i + 1] ELSE 0
        b2 == IF i + 2 <= n THEN s[i + 2] ELSE 0
        b3 == IF i + 3 <= n THEN s[i + 3] ELSE 0
    IN  IF b0 < 128 THEN 1
        ELSE IF b0 \in 194..223 THEN (IF IsCont(b1) THEN 2 ELSE 0)
        ELSE IF b0 = 224 THEN (IF b1 \in 160..191 /\ IsCont(b2) THEN 3 ELSE 0)
        ELSE IF b0 \in (225..236) \cup (238..239)
             THEN (IF IsCont(b1) /\ IsCont(b2) THEN 3 ELSE 0)
        ELSE IF b0 = 237 THEN (IF b1 \in 128..159 /\ IsCont(b2) THEN 3 ELSE 0)
        ELSE IF b0 = 240
             THEN (IF b1 \in 144..191 /\ IsCont(b2) /\ IsCont(b3) THEN 4 ELSE 0)
        ELSE IF b0 \in 241..243
             THEN (IF IsCont(b1) /\ IsCont(b2) /\ IsCont(b3) THEN 4 ELSE 0)
        ELSE IF b0 = 244
             THEN (IF b1 \in 128..143 /\ IsCont(b2) /\ IsCont(b3) THEN 4 ELSE 0)
        ELSE 0

RECURSIVE ValidFrom(_, _)
ValidFrom(s, i) ==
    IF i > Len(s) THEN TRUE
    ELSE LET k == Utf8CharLen(s, i)
         IN  IF k = 0 THEN FALSE ELSE ValidFrom(s, i + k)

\* std::str::from_utf8(s).is_ok()
from_utf8(s) == ValidFrom(s, 1)

\* Code point of the well-formed character of k bytes starting at s[i].
CodePoint(s, i, k) ==
    IF k = 1 THEN s[i]
    ELSE IF k = 2 THEN (s[i] - 192) * 64 + (s[i + 1] - 128)
    ELSE IF k = 3 THEN (s[i] - 224) * 4096 + (s[i + 1] - 128) * 64 + (s[i + 2] - 128)
    ELSE (s[i] - 240) * 262144 + (s[i + 1] - 128) * 4096
             + (s[i + 2] - 128) * 64 + (s[i + 3] - 128)

\* char::is_whitespace: the Unicode White_Space property.
is_whitespace(c) ==
    \/ c \in 9..13
    \/ c = 32
    \/ c = 133
    \/ c = 160
    \/ c = 5760
    \/ c \in 8192..8202
    \/ c \in {8232, 8233, 8239, 8287, 12288}

RECURSIVE trim_start(_)
trim_start(s) ==
    IF s = << >> THEN s
    ELSE LET k == Utf8CharLen(s, 1)
         IN  IF is_whitespace(CodePoint(s, 1, k))
             THEN trim_start(SliceFrom(s, k))
             ELSE s

\* 1-based index of the first byte of the last character of a valid &str.
RECURSIVE LastCharStart(_, _)
LastCharStart(s, i) == IF IsCont(s[i]) THEN LastCharStart(s, i - 1) ELSE i

RECURSIVE trim_end(_)
trim_end(s) ==
    IF s = << >> THEN s
    ELSE LET i == LastCharStart(s, Len(s))
         IN  IF is_whitespace(CodePoint(s, i, Len(s) - i + 1))
             THEN trim_end(SliceTo(s, i - 1))
             ELSE s

\* str::trim on a valid &str.
trim(s) == trim_end(trim_start(s))

\* split as str::splitn(3, ' ') would do it: the third field is the remainder.
split_n3(s, sep) ==
    LET i == memchr(sep, s)
    IN  IF i = -1 THEN << s >>
        ELSE LET t == SliceFrom(s, i + 1)
                 j == memchr(sep, t)
             IN  IF j = -1 THEN << SliceTo(s, i), t >>
                 ELSE << SliceTo(s, i), SliceTo(t, j), SliceFrom(t, j + 1) >>

\* str::split(' '), collected: the fields between the separator bytes,
\* empty fields kept.
RECURSIVE split(_, _)
split(s, sep) ==
    LET idx == memchr(sep, s)
    IN  IF idx = -1 THEN << s >>
        ELSE << SliceTo(s, idx) >> \o split(SliceFrom(s, idx + 1), sep)

\* ------------------------------------------------------------ line scanner
Ok(rest) == [kind |-> "Ok", rest |-> rest]
Err(e) == [kind |-> e, rest |-> << >>]

\* check_crlf skipping one byte instead of two.
check_crlf_SkipOne(bytes) ==
    IF Len(bytes) < 2 THEN Err("Partial")
    ELSE IF bytes[1] = CR /\ bytes[2] = LF THEN Ok(SliceFrom(bytes, 1))
    ELSE Err("Syntax")

\* check_crlf without the length test: a short slice is Syntax.
check_crlf_NoLenCheck(bytes) ==
    IF Len(bytes) >= 2 /\ bytes[1] = CR /\ bytes[2] = LF THEN Ok(SliceFrom(bytes, 2))
    ELSE Err("Syntax")

check_crlf(bytes) ==
    IF Len(bytes) < 2 THEN Err("Partial")
    ELSE IF bytes[1] = CR /\ bytes[2] = LF THEN Ok(SliceFrom(bytes, 2))
    ELSE Err("Syntax")

\* skip_empty_lines with an if in place of the loop: one empty line at most.
skip_empty_lines_Once(bytes) ==
    LET r == check_crlf(bytes)
    IN  IF r.kind = "Ok" THEN Ok(r.rest)
        ELSE IF r.kind = "Partial" THEN Err("Partial")
        ELSE Ok(bytes)

RECURSIVE skip_empty_lines(_)
skip_empty_lines(bytes) ==
    LET r == check_crlf(bytes)
    IN  IF r.kind = "Ok" THEN skip_empty_lines(r.rest)
        ELSE IF r.kind = "Partial" THEN Err("Partial")
        ELSE Ok(bytes)

LineOk(line, rest) == [kind |-> "Ok", line |-> line, rest |-> rest]
LineErr(e) == [kind |-> e, line |-> << >>, rest |-> << >>]

\* next_line returning the slice after the CR only.
next_line_RestAfterCR(bytes) ==
    LET idx == memchr(CR, bytes)
    IN  IF idx = -1 THEN LineErr("Partial")
        ELSE LET line == SliceTo(bytes, idx)
                 r    == check_crlf(SliceFrom(bytes, idx))
             IN  IF r.kind = "Ok" THEN LineOk(line, SliceFrom(bytes, idx + 1))
                 ELSE LineErr(r.kind)

\* next_line taking a CR that is not followed by LF as a line terminator.
next_line_LoneCR(bytes) ==
    LET idx == memchr(CR, bytes)
    IN  IF idx = -1 THEN LineErr("Partial")
        ELSE LET line == SliceTo(bytes, idx)
                 r    == check_crlf(SliceFrom(bytes, idx))
             IN  IF r.kind = "Ok" THEN LineOk(line, r.rest)
                 ELSE IF r.kind = "Syntax" THEN LineOk(line, SliceFrom(bytes, idx + 1))
                 ELSE LineErr(r.kind)

next_line(bytes) ==
    LET idx == memchr(CR, bytes)
    IN  IF idx = -1 THEN LineErr("Partial")
        ELSE LET line == SliceTo(bytes, idx)
                 r    == check_crlf(SliceFrom(bytes, idx))
             IN  IF r.kind = "Ok" THEN LineOk(line, r.rest) ELSE LineErr(r.kind)

\* ------------------------------------------------------ RequestLine::new
ReqErr(e) ==
    [kind |-> e, method |-> << >>, target |-> << >>, version |-> << >>,
     rest |-> << >>]

\* Lines 84-87: skip the leading empty lines, then locate the initial line.
LocateRequestLine(buf) ==
    LET start == skip_empty_lines(buf)
    IN  IF start.kind # "Ok" THEN LineErr(start.kind) ELSE next_line(start.rest)

\* RequestLine::new without the test for a fourth field.
RequestLineNew_NoFourthCheck(buf) ==
    LET l == LocateRequestLine(buf)
    IN  IF l.kind # "Ok" THEN ReqErr(l.kind)
        ELSE IF ~from_utf8(l.line) THEN ReqErr("Syntax")
        ELSE LET chunks == split(l.line, SP)
             IN  IF Len(chunks) < 3 THEN ReqErr("Syntax")
                 ELSE [kind |-> "Ok", method |-> chunks[1], target |-> chunks[2],
                       version |-> chunks[3], rest |-> l.rest]

RequestLineNew(buf) ==
    LET l == LocateRequestLine(buf)
    IN  IF l.kind # "Ok" THEN ReqErr(l.kind)
        ELSE IF ~from_utf8(l.line) THEN ReqErr("Syntax")
        ELSE LET chunks == split(l.line, SP)
             IN  IF Len(chunks) < 3 THEN ReqErr("Syntax")
                 ELSE IF Len(chunks) > 3 THEN ReqErr("Syntax")
                 ELSE [kind |-> "Ok", method |-> chunks[1], target |-> chunks[2],
                       version |-> chunks[3], rest |-> l.rest]

\* --------------------------------------------------------- Headers::next
NoItem == [kind |-> "NotCalled", name |-> << >>, val |-> << >>]
ItemNone == [kind |-> "None", name |-> << >>, val |-> << >>]
ItemErr(e) == [kind |-> e, name |-> << >>, val |-> << >>]
ItemHeader(name, val) == [kind |-> "Header", name |-> name, val |-> val]

\* The split made at the last colon of the line instead of the first.
ParseHeader_LastColon(line) ==
    IF memchr(COLON, line) = -1 THEN ItemErr("Syntax")
    ELSE LET idx  == (CHOOSE i \in 1..Len(line) :
                          line[i] = COLON /\ \A j \in (i + 1)..Len(line) : line[j] # COLON) - 1
             name == SliceTo(line, idx)
             val  == SliceFrom(line, idx)
         IN  IF ~from_utf8(name) THEN ItemErr("Syntax")
             ELSE IF trim(name) = << >> THEN ItemErr("Syntax")
             ELSE ItemHeader(trim(name), SliceFrom(val, 1))

\* What next() returns for a located, non-empty line (lines 149-167).
ParseHeader(line) ==
    LET idx == memchr(COLON, line)
    IN  IF idx = -1 THEN ItemErr("Syntax")
        ELSE LET name == SliceTo(line, idx)
                 val  == SliceFrom(line, idx)
             IN  IF ~from_utf8(name) THEN ItemErr("Syntax")
                 ELSE IF trim(name) = << >> THEN ItemErr("Syntax")
                 ELSE ItemHeader(trim(name), SliceFrom(val, 1))

\* next() returning None for the empty line before it stores rest in self.0.
HeadersNext_EndKeepsCursor(self0) ==
    LET l == next_line(self0)
    IN  IF l.kind # "Ok" THEN [item |-> ItemErr(l.kind), self0 |-> self0, loc |-> l]
        ELSE IF l.line = << >> THEN [item |-> ItemNone, self0 |-> self0, loc |-> l]
        ELSE [item |-> ParseHeader(l.line), self0 |-> l.rest, loc |-> l]

\* next() storing rest in self.0 only when it yields a header.
HeadersNext_AdvanceOnHeaderOnly(self0) ==
    LET l == next_line(self0)
    IN  IF l.kind # "Ok" THEN [item |-> ItemErr(l.kind), self0 |-> self0, loc |-> l]
        ELSE IF l.line = << >> THEN [item |-> ItemNone, self0 |-> l.rest, loc |-> l]
        ELSE LET h == ParseHeader(l.line)
             IN  [item |-> h, self0 |-> IF h.kind = "Header" THEN l.rest ELSE self0,
                  loc |-> l]

\* next(&mut self): the returned item, the new value of self.0 and the
\* result of the line location it started with.
HeadersNext(self0) ==
    LET l == next_line(self0)
    IN  IF l.kind # "Ok" THEN [item |-> ItemErr(l.kind), self0 |-> self0, loc |-> l]
        ELSE IF l.line = << >> THEN [item |-> ItemNone, self0 |-> l.rest, loc |-> l]
        ELSE [item |-> ParseHeader(l.line), self0 |-> l.rest, loc |-> l]

\* ------------------------------------------------------------------ state
VARIABLES
    pc,        \* position of the caller
    buf,       \* the caller's buffer
    req,       \* result of RequestLine::new(buf)
    rline,     \* line location inside RequestLine::new
    start,     \* the slice Headers::new was given
    cursor,    \* Headers.0
    item,      \* what the last next() returned
    loc,       \* line location inside the last next()
    consumed,  \* bytes the advances have consumed so far
    ended,     \* an earlier next() has returned None
    nadv,      \* number of next() calls so far
    inner      \* slice returned by into_inner

vars == << pc, buf, req, rline, start, cursor, item, loc, consumed, ended, nadv, inner >>

reqVars == << req, rline >>
hdrVars == << start, cursor, item, loc, consumed, ended, nadv, inner >>

Idle ==
    /\ req = ReqErr("NotCalled")
    /\ rline = LineErr("NotCalled")
    /\ start = << >>
    /\ cursor = << >>
    /\ item = NoItem
    /\ loc = LineErr("NotCalled")
    /\ consumed = << >>
    /\ ended = FALSE
    /\ nadv = 0
    /\ inner = << >>

\* The caller holds a buffer believed to start at the beginning of a request.
InitReq ==
    /\ pc = "request"
    /\ buf \in ReqInputs
    /\ Idle

\* The caller holds a buffer believed to start right after a Request-Line.
InitHdr ==
    /\ pc = "headers"
    /\ buf \in HdrInputs
    /\ Idle

\* RequestLine::new(buf)
RequestLine_new ==
    /\ pc = "request"
    /\ req' = RequestLineNew(buf)
    /\ rline' = LocateRequestLine(buf)
    /\ pc' = "parsed"
    /\ UNCHANGED << buf, hdrVars >>

\* Headers::new(buf)
Headers_new ==
    /\ pc = "headers"
    /\ start' = buf
    /\ cursor' = buf
    /\ pc' = "iter"
    /\ UNCHANGED << buf, reqVars, item, loc, consumed, ended, nadv, inner >>

\* Headers::new(rest) on the remainder RequestLine::new returned.
Headers_new_rest ==
    /\ pc = "parsed"
    /\ req.kind = "Ok"
    /\ start' = req.rest
    /\ cursor' = req.rest
    /\ pc' = "iter"
    /\ UNCHANGED << buf, reqVars, item, loc, consumed, ended, nadv, inner >>

\* headers.next()
Headers_next ==
    /\ pc = "iter"
    /\ nadv < MaxAdv
    /\ LET r == HeadersNext(cursor)
       IN  /\ cursor' = r.self0
           /\ item' = r.item
           /\ loc' = r.loc
           /\ consumed' = IF r.loc.kind = "Ok"
                          THEN consumed \o r.loc.line \o << CR, LF >>
                          ELSE consumed
    /\ ended' = (ended \/ item.kind = "None")
    /\ nadv' = nadv + 1
    /\ UNCHANGED << pc, buf, reqVars, start, inner >>

\* headers.into_inner()
Headers_into_inner ==
    /\ pc = "iter"
    /\ inner' = cursor
    /\ pc' = "done"
    /\ UNCHANGED << buf, reqVars, start, cursor, item, loc, consumed, ended, nadv >>

Init == InitReq \/ InitHdr

Next ==
    \/ RequestLine_new
    \/ Headers_new
    \/ Headers_new_rest
    \/ Headers_next
    \/ Headers_into_inner

Spec == Init /\ [][Next]_vars

\* ------------------------------------------------------------- vocabulary
CRLF == << CR, LF >>

StartsWith(s, p) == Len(s) >= Len(p) /\ SubSeq(s, 1, Len(p)) = p
EndsWith(s, p) == Len(s) >= Len(p) /\ SubSeq(s, Len(s) - Len(p) + 1, Len(s)) = p

RECURSIVE Repeat(_, _)
Repeat(p, k) == IF k = 0 THEN << >> ELSE p \o Repeat(p, k - 1)

Count(b, s) == Cardinality({i \in 1..Len(s) : s[i] = b})
Has(b, s) == \E i \in 1..Len(s) : s[i] = b

\* 1-based position of the first / last occurrence of b in s (Has(b, s) assumed).
First(b, s) == CHOOSE i \in 1..Len(s) : s[i] = b /\ \A j \in 1..(i - 1) : s[j] # b
Last(b, s) == CHOOSE i \in 1..Len(s) : s[i] = b /\ \A j \in (i + 1)..Len(s) : s[j] # b

\* The step is an advance of the header cursor.
Advance == nadv' = nadv + 1

\* An advance has reported end-of-headers.
EndReported == ended \/ item.kind = "None"

Called == req.kind # "NotCalled"

\* ----------------------------------------------------------------- claims

\* C1 (as stated): once an advance has reported end-of-headers, every later
\* advance reports None again and leaves the cursor unchanged.
C1_Original ==
    [][(Advance /\ EndReported) => (item'.kind = "None" /\ cursor' = cursor)]_vars

\* C1 (amended): the iterator is not fused.  After end-of-headers has been
\* reported, a later advance scans the bytes after the empty line like any
\* other line: it reports None again exactly when they begin with CRLF, and
\* then consumes that CRLF; it leaves the cursor unchanged exactly when no
\* line can be located, and then it reports Partial or Syntax; otherwise it
\* consumes the next line and yields a header or Syntax.
C1_Amended ==
    [][(Advance /\ EndReported) =>
          /\ (item'.kind = "None") <=> StartsWith(cursor, CRLF)
          /\ (item'.kind = "None") => (cursor' = SliceFrom(cursor, 2))
          /\ (cursor' = cursor) <=> (loc'.kind # "Ok")
          /\ (cursor' = cursor) => (item'.kind \in {"Partial", "Syntax"})
          /\ (cursor' # cursor /\ item'.kind # "None")
                 => (item'.kind \in {"Header", "Syntax"})]_vars

\* A header was yielded by an advance made after end-of-headers was reported.
C1_Witness == ended /\ item.kind = "Header"

\* C5: the lines consumed so far, each with its CRLF, followed by the cursor
\* are the buffer the iteration started on; when the end is signalled the
\* consumed bytes end with the empty line's CRLF, so the cursor is the body
\* prefix; into_inner returns the cursor.
C5_Lossless ==
    (pc \in {"iter", "done"}) =>
        /\ consumed \o cursor = start
        /\ (item.kind = "None") =>
               /\ EndsWith(consumed, CRLF)
               /\ (consumed = CRLF \/ EndsWith(consumed, CRLF \o CRLF))
               /\ cursor = SliceFrom(start, Len(consumed))
        /\ (pc = "done") => (inner = cursor /\ consumed \o inner = start)

\* A line and then the empty line were consumed, and a body prefix is left.
C5_Witness ==
    /\ pc = "done"
    /\ nadv = 2
    /\ item.kind = "None"
    /\ Len(consumed) > 4
    /\ inner # << >>

\* C8: an advance moves the cursor exactly when it located a line.  Without
\* a located line it yields that location error and a repeated advance gives
\* the same error again; with a located line the cursor is the slice just
\* past the line's CRLF, also when the advance yields Syntax for the header.
C8_CursorMoves ==
    [][Advance =>
          /\ (cursor' # cursor) <=> (loc'.kind = "Ok")
          /\ (loc'.kind # "Ok") =>
                 /\ loc'.kind \in {"Partial", "Syntax"}
                 /\ item'.kind = loc'.kind
          /\ (loc'.kind = "Ok") => (cursor = loc'.line \o CRLF \o cursor')
          /\ (nadv >= 1 /\ loc.kind # "Ok") => (item' = item /\ cursor' = cursor)]_vars

\* A located line without a colon was consumed although the advance yielded
\* Syntax for it, and the following advance went on with the next line.
C8_Witness ==
    /\ nadv = 2
    /\ loc.kind = "Ok"
    /\ First(CR, consumed) > 1
    /\ ~ Has(COLON, SliceTo(consumed, First(CR, consumed) - 1))
    /\ cursor = SliceFrom(start, Len(consumed))

\* C9: line location uses only the first CR of the buffer: no CR is
\* Partial, a first CR that is the last byte is Partial, a first CR followed
\* by a byte other than LF is Syntax even when a CRLF occurs later, and
\* otherwise the result is the bytes before the first CR and the bytes after
\* the LF that follows it; a located line contains no CR.
C9_FirstCR ==
    [][Advance =>
          IF ~ Has(CR, cursor) THEN loc'.kind = "Partial"
          ELSE LET i == First(CR, cursor)
               IN  IF i = Len(cursor) THEN loc'.kind = "Partial"
                   ELSE IF cursor[i + 1] # LF THEN loc'.kind = "Syntax"
                   ELSE /\ loc'.kind = "Ok"
                        /\ loc'.line = SubSeq(cursor, 1, i - 1)
                        /\ loc'.rest = SubSeq(cursor, i + 2, Len(cursor))
                        /\ ~ Has(CR, loc'.line)]_vars

\* Location failed with Syntax at the first CR although a CRLF occurs later.
C9_Witness ==
    /\ nadv = 1
    /\ loc.kind = "Syntax"
    /\ \E i \in 1..(Len(cursor) - 1) : cursor[i] = CR /\ cursor[i + 1] = LF

\* C2 (as stated): on success method, target and version are non-empty.
C2_Original ==
    (req.kind = "Ok") =>
        (req.method # << >> /\ req.target # << >> /\ req.version # << >>)

\* C2 (amended): on success method, target and version are free of the
\* space character but may be empty: method is empty exactly when the line
\* begins with a space, version exactly when it ends with a space, and
\* target exactly when the line's two spaces are adjacent.
C2_Amended ==
    (req.kind = "Ok") =>
        /\ ~ Has(SP, req.method) /\ ~ Has(SP, req.target) /\ ~ Has(SP, req.version)
        /\ Len(rline.line) >= 2
        /\ (req.method = << >>) <=> (rline.line[1] = SP)
        /\ (req.version = << >>) <=> (rline.line[Len(rline.line)] = SP)
        /\ (req.target = << >>) <=> StartsWith(SliceFrom(rline.line, First(SP, rline.line) - 1),
                                                << SP, SP >>)

\* A request line with an empty target was accepted.
C2_Witness ==
    /\ req.kind = "Ok"
    /\ req.target = << >>
    /\ req.method # << >>

\* C3: when a line is located after the leading empty lines and is valid
\* text, RequestLine::new succeeds if and only if the line contains exactly
\* two space bytes and returns Syntax otherwise; on success method, target
\* and version are the three space-free fields of the line in order.
C3_FieldCount ==
    (Called /\ rline.kind = "Ok" /\ from_utf8(rline.line)) =>
        /\ (req.kind = "Ok") <=> (Count(SP, rline.line) = 2)
        /\ (req.kind # "Ok") => (req.kind = "Syntax")
        /\ (req.kind = "Ok") =>
               /\ rline.line = req.method \o << SP >> \o req.target \o << SP >> \o req.version
               /\ ~ Has(SP, req.method)
               /\ ~ Has(SP, req.target)
               /\ ~ Has(SP, req.version)

\* A line of three non-empty fields was accepted.
C3_Witness ==
    /\ req.kind = "Ok"
    /\ Count(SP, rline.line) = 2
    /\ req.method # << >> /\ req.target # << >> /\ req.version # << >>

\* C4: on success the buffer is k copies of CRLF, then method, a space,
\* target, a space, version, then CRLF, then the returned rest.
C4_Lossless ==
    (req.kind = "Ok") =>
        \E k \in 0..Len(buf) :
            buf = Repeat(CRLF, k) \o req.method \o << SP >> \o req.target \o << SP >>
                      \o req.version \o CRLF \o req.rest

\* Success after a skipped empty line and with bytes left after the line.
C4_Witness ==
    /\ req.kind = "Ok"
    /\ StartsWith(buf, CRLF)
    /\ req.rest # << >>

\* C10: k leading copies of CRLF do not change the outcome of
\* RequestLine::new; a leading bare LF is not skipped (it becomes part of
\* method) and a leading CR that is not followed by LF is Syntax.
C10_LeadingEmptyLines ==
    Called =>
        /\ \A k \in 0..Len(buf) :
               StartsWith(buf, Repeat(CRLF, k)) => (req = RequestLineNew(SliceFrom(buf, 2 * k)))
        /\ (req.kind = "Ok" /\ StartsWith(buf, << LF >>)) => StartsWith(req.method, << LF >>)
        /\ (Len(buf) >= 2 /\ buf[1] = CR /\ buf[2] # LF) => (req.kind = "Syntax")

\* Success on a buffer that begins with an empty line.
C10_Witness ==
    /\ req.kind = "Ok"
    /\ StartsWith(buf, CRLF)
    /\ req.method # << >>

\* C6: appending bytes changes no result other than Partial.  If
\* RequestLine::new is Syntax on a prefix of the buffer it is Syntax on the
\* buffer; if it succeeds on a prefix it succeeds on the buffer with the same
\* fields and with the appended bytes added to rest.  The first advance of
\* Headers on the buffer yields what it yields on a prefix unless that is
\* Partial.
C6_Restart ==
    /\ Called =>
           \A n \in 0..Len(buf) :
               LET r == RequestLineNew(SliceTo(buf, n))
               IN  /\ (r.kind = "Syntax") => (req.kind = "Syntax")
                   /\ (r.kind = "Ok") =>
                          (req = [r EXCEPT !.rest = r.rest \o SliceFrom(buf, n)])
    /\ (nadv = 1) =>
           \A n \in 0..Len(start) :
               LET r == HeadersNext(SliceTo(start, n))
               IN  (r.item.kind # "Partial") =>
                       /\ item = r.item
                       /\ cursor = r.self0 \o SliceFrom(start, n)

\* Success on a buffer that has a proper prefix which already succeeds, and
\* a header yielded on a buffer with a proper prefix which already yields it.
C6_Witness ==
    \/ /\ req.kind = "Ok"
       /\ req.rest # << >>
       /\ req.method # << >>
    \/ /\ nadv = 1
       /\ item.kind = "Header"
       /\ cursor # << >>

\* ASCII whitespace (u8::is_ascii_whitespace).
AsciiWhitespace == {9, 10, 12, 13, 32}

RECURSIVE TrimAscii(_)
TrimAscii(s) ==
    IF s = << >> THEN s
    ELSE IF s[1] \in AsciiWhitespace THEN TrimAscii(Tail(s))
    ELSE IF s[Len(s)] \in AsciiWhitespace THEN TrimAscii(SubSeq(s, 1, Len(s) - 1))
    ELSE s

\* The UTF-8 encodings of the characters with the White_Space property.
WhiteSpaceChars ==
    {<< b >> : b \in (9..13) \cup {32}}
        \cup {<< 194, 133 >>, << 194, 160 >>, << 225, 154, 128 >>}
        \cup {<< 226, 128, b >> : b \in (128..138) \cup {168, 169, 175}}
        \cup {<< 226, 129, 159 >>, << 227, 128, 128 >>}

\* s is a run of White_Space characters.
RECURSIVE AllWhite(_)
AllWhite(s) ==
    \/ s = << >>
    \/ \E w \in WhiteSpaceChars : StartsWith(s, w) /\ AllWhite(SubSeq(s, Len(w) + 1, Len(s)))

\* name is part without the White_Space characters that surround it.
IsTrimOf(name, part) ==
    \E a \in 0..Len(part) : \E b \in a..Len(part) :
        /\ name = SubSeq(part, a + 1, b)
        /\ AllWhite(SubSeq(part, 1, a))
        /\ AllWhite(SubSeq(part, b + 1, Len(part)))
        /\ \A w \in WhiteSpaceChars : ~ StartsWith(name, w) /\ ~ EndsWith(name, w)

\* The last advance located a non-empty line.
LocatedHeaderLine == nadv >= 1 /\ loc.kind = "Ok" /\ loc.line # << >>

NamePart(line) == SubSeq(line, 1, First(COLON, line) - 1)
ValPart(line) == SubSeq(line, First(COLON, line) + 1, Len(line))

\* C7 (as stated): for a located non-empty line the advance yields Syntax if
\* the line has no colon or the part before the first colon is not valid
\* text or is empty after trimming ASCII whitespace; otherwise it yields that
\* part with the surrounding ASCII whitespace, and nothing else, removed as
\* name and the bytes after the first colon as val.
C7_Original ==
    LocatedHeaderLine =>
        IF ~ Has(COLON, loc.line) THEN item = ItemErr("Syntax")
        ELSE IF ~ from_utf8(NamePart(loc.line)) THEN item = ItemErr("Syntax")
        ELSE IF TrimAscii(NamePart(loc.line)) = << >> THEN item = ItemErr("Syntax")
        ELSE item = ItemHeader(TrimAscii(NamePart(loc.line)), ValPart(loc.line))

\* C7 (amended): as stated, but the trimming removes every surrounding
\* character with the Unicode White_Space property (str::trim), which are
\* the ASCII whitespace characters and also others such as U+00A0; a name
\* part that consists of such characters only is Syntax.
C7_Amended ==
    LocatedHeaderLine =>
        IF ~ Has(COLON, loc.line) THEN item = ItemErr("Syntax")
        ELSE IF ~ from_utf8(NamePart(loc.line)) THEN item = ItemErr("Syntax")
        ELSE IF AllWhite(NamePart(loc.line)) THEN item = ItemErr("Syntax")
        ELSE /\ item.kind = "Header"
             /\ item.name # << >>
             /\ IsTrimOf(item.name, NamePart(loc.line))
             /\ item.val = ValPart(loc.line)

\* A header whose name lost a leading U+00A0.
C7_Witness ==
    /\ LocatedHeaderLine
    /\ item.kind = "Header"
    /\ StartsWith(loc.line, << 194, 160 >>)
    /\ Len(item.name) < Len(NamePart(loc.line))

====
